---- MODULE Spec2Model ----
(***************************************************************************)
(* Model of include/adiff.hpp: statically chained layers (Linear, Tanh,    *)
(* Sum), each in a Root and a Chained (non-root) specialization, with      *)
(* forward() and the reverse-mode backward() that delegates to the parent. *)
(*                                                                         *)
(* NUM = double is modelled in fixed point: the integer v stands for the   *)
(* real v / Scale, products and quotients are rounded to nearest.  A       *)
(* vector is a tuple of numbers, a matrix a tuple of rows.                 *)
(***************************************************************************)
EXTENDS Integers, Sequences, FiniteSets, TLC

\* ------------------------------------------------------------------ bounds
MaxLayers == 2
MaxDepth == 3
Dims == {1, 2}
Kinds == {"Linear", "Tanh", "Sum"}

\* ------------------------------------------------------- NUM (fixed point)
Scale == 100

RDiv(p, q) ==
  IF p >= 0 THEN (2 * p + q) \div (2 * q) ELSE -((2 * (-p) + q) \div (2 * q))

FMul(a, b) == RDiv(a * b, Scale)

\* std::tanh, by its Pade approximant x(27 + x^2) / (27 + 9 x^2) on [-3, 3],
\* where the approximant reaches -1 and 1, and saturated outside
NumTanh(v) ==
  IF v >= 3 * Scale THEN Scale
  ELSE IF v <= -3 * Scale THEN -Scale
  ELSE RDiv(v * (27 * Scale * Scale + v * v), 27 * Scale * Scale + 9 * v * v)

\* ------------------------------------------------- Eigen vectors, matrices
RECURSIVE SumTo(_, _)
SumTo(f, k) == IF k = 0 THEN 0 ELSE f[k] + SumTo(f, k - 1)

Rows(M) == Len(M)
Cols(M) == Len(M[1])

VecAdd(u, v) == [j \in 1..Len(u) |-> u[j] + v[j]]
VecSum(x) == SumTo(x, Len(x))
MatVec(M, x) ==
  [r \in 1..Rows(M) |-> SumTo([c \in 1..Len(x) |-> FMul(M[r][c], x[c])], Len(x))]
MatMul(A, B) ==
  [r \in 1..Rows(A) |->
     [c \in 1..Cols(B) |->
        SumTo([k \in 1..Rows(B) |-> FMul(A[r][k], B[k][c])], Rows(B))]]
Ones(r, c) == [i \in 1..r |-> [j \in 1..c |-> Scale]]
\* the dense matrix of d.asDiagonal()
Diag(d) == [i \in 1..Len(d) |-> [j \in 1..Len(d) |-> IF i = j THEN d[i] ELSE 0]]
\* d.asDiagonal() * M: row i of M scaled by d[i]
DiagMul(d, M) == [i \in 1..Len(d) |-> [j \in 1..Cols(M) |-> FMul(d[i], M[i][j])]]
\* (1 - x.array().tanh().pow(2)).matrix()
TanhDeriv(x) == [j \in 1..Len(x) |-> Scale - FMul(NumTanh(x[j]), NumTanh(x[j]))]

\* ------------------------------------------------------------------ inputs
\* The vectors a host passes to forward(): (0,0,..) and (1,1,..)
InSeeds == {<<0, 0>>, <<Scale, 0>>}
Inputs(n) == {[j \in 1..n |-> s[1] + s[2] * (j - 1)] : s \in InSeeds}

\* What a default-initialized x_ may hold: (-1,0,..) or (1/2,1/2,..)
GarbageSeeds == {<<-Scale, Scale>>, <<Scale \div 2, 0>>}
Garbage(n) == {[j \in 1..n |-> s[1] + s[2] * (j - 1)] : s \in GarbageSeeds}

\* The parameters a host passes to setWeights(): W = [[2,3,..],[3,4,..],..]
\* with b = [1,2,..], and W = identity pattern with b = 0
Params(m, n) ==
  { [W |-> [r \in 1..m |-> [c \in 1..n |-> Scale * (r + c)]],
     b |-> [r \in 1..m |-> Scale * r]],
    [W |-> [r \in 1..m |-> [c \in 1..n |-> IF r = c THEN Scale ELSE 0]],
     b |-> [r \in 1..m |-> 0]] }

\* ------------------------------------------------------------------- state
VARIABLES
  layers,   \* the constructed layers, in construction order: kind, n, m, parent
  W_,       \* LinearBase::W_ of each layer (<<>> when not Linear)
  b_,       \* LinearBase::b_
  x_,       \* TanhBase::x_   (<<>> when not Tanh)
  fwd,      \* history: forward() has been called on the layer
  lastIn,   \* history: the argument of a Tanh layer's latest forward()
  rewrote,  \* history: a forward() of the Tanh layer replaced another argument
  lastSet,  \* history: the arguments of the layer's latest setWeights()
  pass,     \* history: the value each layer received in the latest whole-chain pass
  ret       \* the latest call, what it returned and what it raised

vars == <<layers, W_, b_, x_, fwd, lastIn, rewrote, lastSet, pass, ret>>

NoPass == <<>>
Live == 1..Len(layers)

IsRoot(i) == layers[i].parent = 0

\* static constexpr int out_dim (the rows of Jacobian for Sum)
out_dim(i) ==
  CASE layers[i].kind = "Linear" -> layers[i].m
    [] layers[i].kind = "Tanh" -> layers[i].n
    [] layers[i].kind = "Sum" -> 1

\* static constexpr int root_dim
\* (variant: every layer taking its own input width)
root_dim_OwnWidth(i) == layers[i].n
RECURSIVE root_dim(_)
root_dim(i) == IF IsRoot(i) THEN layers[i].n ELSE root_dim(layers[i].parent)

\* ------------------------------------------------------------- constructors
Init ==
  /\ layers = <<>>
  /\ W_ = <<>>
  /\ b_ = <<>>
  /\ x_ = <<>>
  /\ fwd = <<>>
  /\ lastIn = <<>>
  /\ rewrote = <<>>
  /\ lastSet = <<>>
  /\ pass = NoPass
  /\ ret = [op |-> "none", layer |-> 0, arg |-> <<>>, val |-> <<>>, calls |-> <<>>,
            raised |-> "none"]

\* Root() or Chained(parent): the members are left default-initialized, so W_,
\* b_ and x_ hold whatever the storage held
Construct(kind, n, m, parent) ==
  /\ parent = Len(layers)
  /\ \E g \in Params(m, n), gx \in Garbage(n) :
       /\ W_' = Append(W_, IF kind = "Linear" THEN g.W ELSE <<>>)
       /\ b_' = Append(b_, IF kind = "Linear" THEN g.b ELSE <<>>)
       /\ x_' = Append(x_, IF kind = "Tanh" THEN gx ELSE <<>>)
  /\ layers' = Append(layers,
       [kind |-> kind, n |-> n, m |-> IF kind = "Linear" THEN m ELSE 0,
        parent |-> parent])
  /\ fwd' = Append(fwd, FALSE)
  /\ lastIn' = Append(lastIn, <<>>)
  /\ rewrote' = Append(rewrote, FALSE)
  /\ lastSet' = Append(lastSet, <<>>)
  /\ ret' = [op |-> "construct", layer |-> Len(layers) + 1, arg |-> <<>>,
             val |-> <<>>, calls |-> <<>>, raised |-> "none"]
  /\ UNCHANGED pass

\* --------------------------------------------------------------- setWeights
\* (variant: b_ left as it was)
LinearBase_setWeights_OnlyW(i, W, b) == [W_ |-> W, b_ |-> b_[i]]
LinearBase_setWeights(i, W, b) == [W_ |-> W, b_ |-> b]

SetWeights(i, p) ==
  /\ layers[i].kind = "Linear"
  /\ LET r == LinearBase_setWeights(i, p.W, p.b) IN
       /\ W_' = [W_ EXCEPT ![i] = r.W_]
       /\ b_' = [b_ EXCEPT ![i] = r.b_]
  /\ lastSet' = [lastSet EXCEPT ![i] = p]
  /\ pass' = NoPass
  /\ ret' = [op |-> "setWeights", layer |-> i, arg |-> p, val |-> <<>>,
             calls |-> <<>>, raised |-> "none"]
  /\ UNCHANGED <<layers, x_, fwd, lastIn, rewrote>>

\* ------------------------------------------------------------------ forward
\* (variant: the bias left out)
LinearBase_forward_NoBias(i, x) == [x_ |-> x_[i], out |-> MatVec(W_[i], x)]
LinearBase_forward(i, x) == [x_ |-> x_[i], out |-> VecAdd(MatVec(W_[i], x), b_[i])]

\* (variants: x_ not overwritten; x_ holding the output instead of the input)
TanhBase_forward_KeepsCache(i, x) ==
  [x_ |-> x_[i], out |-> [j \in 1..Len(x) |-> NumTanh(x[j])]]
TanhBase_forward_CachesOutput(i, x) ==
  [x_ |-> [j \in 1..Len(x) |-> NumTanh(x[j])], out |-> [j \in 1..Len(x) |-> NumTanh(x[j])]]
TanhBase_forward(i, x) == [x_ |-> x, out |-> [j \in 1..Len(x) |-> NumTanh(x[j])]]

\* the NUM it returns is written as a vector of width 1
SumBase_forward(i, x) == [x_ |-> x_[i], out |-> <<VecSum(x)>>]

LayerForward(i, x) ==
  CASE layers[i].kind = "Linear" -> LinearBase_forward(i, x)
    [] layers[i].kind = "Tanh" -> TanhBase_forward(i, x)
    [] layers[i].kind = "Sum" -> SumBase_forward(i, x)

Forward(i, x) ==
  /\ LET r == LayerForward(i, x) IN
       /\ x_' = [x_ EXCEPT ![i] = r.x_]
       /\ ret' = [op |-> "forward", layer |-> i, arg |-> x, val |-> r.out,
                  calls |-> <<>>, raised |-> "none"]
  /\ fwd' = [fwd EXCEPT ![i] = TRUE]
  /\ lastIn' = [lastIn EXCEPT ![i] = IF layers[i].kind = "Tanh" THEN x ELSE <<>>]
  /\ rewrote' = [rewrote EXCEPT ![i] = @ \/ (lastIn[i] # <<>> /\ lastIn[i] # x)]
  /\ pass' = NoPass
  /\ UNCHANGED <<layers, W_, b_, lastSet>>

\* ----------------------------------------------------------------- backward
\* The product in a Chained backward() is a fixed-size Eigen product: it is
\* instantiated only when the layer's input width is the row count of the
\* parent's Jacobian, all the way up the chain.
RECURSIVE BackwardCompiles(_)
BackwardCompiles(i) ==
  IF IsRoot(i) THEN TRUE
  ELSE /\ layers[i].n = out_dim(layers[i].parent)
       /\ BackwardCompiles(layers[i].parent)

LinearRoot_backward(i) == W_[i]
Linear_backward(i, pb) == MatMul(W_[i], pb)
TanhRoot_backward(i) == Diag(TanhDeriv(x_[i]))
\* (variant: 1 - tanh(x) without the square)
Tanh_backward_NoSquare(i, pb) ==
  DiagMul([j \in 1..Len(x_[i]) |-> Scale - NumTanh(x_[i][j])], pb)
Tanh_backward(i, pb) == DiagMul(TanhDeriv(x_[i]), pb)
SumRoot_backward(i) == Ones(1, layers[i].n)
\* (variant: the row of ones returned without the parent's Jacobian)
Sum_backward_IgnoresParent(i, pb) == Ones(1, Cols(pb))
Sum_backward(i, pb) == MatMul(Ones(1, layers[i].n), pb)

\* backward() of layer i: the Jacobian it returns and the backward() calls made
RECURSIVE backward(_)
backward(i) ==
  IF IsRoot(i)
  THEN [val |-> CASE layers[i].kind = "Linear" -> LinearRoot_backward(i)
                  [] layers[i].kind = "Tanh" -> TanhRoot_backward(i)
                  [] layers[i].kind = "Sum" -> SumRoot_backward(i),
        calls |-> <<i>>]
  ELSE LET p == backward(layers[i].parent) IN
       [val |-> CASE layers[i].kind = "Linear" -> Linear_backward(i, p.val)
                  [] layers[i].kind = "Tanh" -> Tanh_backward(i, p.val)
                  [] layers[i].kind = "Sum" -> Sum_backward(i, p.val),
        calls |-> <<i>> \o p.calls]

\* what backward() assigns: nothing (variant: the cached input cleared)
BackwardEffect_ConsumesCache(i) ==
  [W_ |-> W_, b_ |-> b_, x_ |-> [x_ EXCEPT ![i] = [j \in 1..Len(x_[i]) |-> 0]]]
BackwardEffect(i) == [W_ |-> W_, b_ |-> b_, x_ |-> x_]

Backward(i) ==
  /\ BackwardCompiles(i)
  /\ LET r == backward(i) e == BackwardEffect(i) IN
       /\ ret' = [op |-> "backward", layer |-> i, arg |-> <<>>, val |-> r.val,
                  calls |-> r.calls, raised |-> "none"]
       /\ W_' = e.W_
       /\ b_' = e.b_
       /\ x_' = e.x_
  /\ UNCHANGED <<layers, fwd, lastIn, rewrote, lastSet, pass>>

\* ------------------------------------------------------- whole-chain forward
\* l3(l2(l1(l0(x)))): each layer's forward() on the previous layer's output,
\* root first.  ChainForward(k, x) is the state of x_ and the output after
\* layers 1..k, and the value each of them received.
RECURSIVE ChainForward(_, _)
ChainForward(k, x) ==
  IF k = 0 THEN [x_ |-> x_, out |-> x, ins |-> <<>>]
  ELSE LET p == ChainForward(k - 1, x)
           r == LayerForward(k, p.out)
       IN  [x_ |-> [p.x_ EXCEPT ![k] = r.x_], out |-> r.out,
            ins |-> Append(p.ins, p.out)]

ForwardCompiles ==
  \A i \in Live : IF IsRoot(i) THEN TRUE ELSE layers[i].n = out_dim(layers[i].parent)

NNForward(x) ==
  /\ Len(layers) >= 1
  /\ ForwardCompiles
  /\ LET r == ChainForward(Len(layers), x) IN
       /\ x_' = r.x_
       /\ pass' = r.ins
       /\ lastIn' = [i \in Live |-> IF layers[i].kind = "Tanh" THEN r.ins[i] ELSE <<>>]
       /\ rewrote' = [i \in Live |-> rewrote[i] \/
                        (lastIn[i] # <<>> /\ lastIn[i] # r.ins[i])]
       /\ ret' = [op |-> "nnforward", layer |-> Len(layers), arg |-> x,
                  val |-> r.out, calls |-> <<>>, raised |-> "none"]
  /\ fwd' = [i \in Live |-> TRUE]
  /\ UNCHANGED <<layers, W_, b_, lastSet>>

\* ---------------------------------------------------------------------- Next
\* a layer of input width n fits the chain built so far
Fits(n) == IF Len(layers) = 0 THEN TRUE ELSE n = out_dim(Len(layers))

\* A host that drives the layers one by one, on chains that fit.
Next ==
  \/ \E kind \in Kinds, n \in Dims, m \in Dims :
       Len(layers) < MaxLayers /\ Fits(n) /\ Construct(kind, n, m, Len(layers))
  \/ \E i \in Live : \E p \in Params(out_dim(i), layers[i].n) : SetWeights(i, p)
  \/ \E i \in Live : \E x \in Inputs(layers[i].n) : Forward(i, x)
  \/ \E i \in Live : Backward(i)

Spec == Init /\ [][Next]_vars

\* A host like class NN: the layers are private members, constructed first,
\* their weights initialized once in the constructor, and then driven only
\* through the whole-chain forward() and the tail's backward().
Assembling == ret.op \in {"none", "construct"}
Initializing == ret.op \in {"construct", "setWeights"}
Unset(i) == layers[i].kind = "Linear" /\ lastSet[i] = <<>>
Initialized == Len(layers) > 0 /\ \A i \in Live : ~Unset(i)

NextNN ==
  \/ \E kind \in Kinds, n \in Dims, m \in Dims :
       /\ Assembling /\ Len(layers) < MaxDepth /\ Fits(n)
       /\ Construct(kind, n, m, Len(layers))
  \/ \E i \in Live : \E p \in Params(out_dim(i), layers[i].n) :
       /\ Initializing /\ Unset(i) /\ \A k \in 1..(i - 1) : ~Unset(k)
       /\ SetWeights(i, p)
  \/ \E x \in Inputs(IF Len(layers) > 0 THEN layers[1].n ELSE 1) :
       Initialized /\ NNForward(x)
  \/ Initialized /\ Backward(Len(layers))

SpecNN == Init /\ [][NextNN]_vars

\* A host that constructs any layer on any parent.
NextAny ==
  \/ \E kind \in Kinds, n \in Dims, m \in Dims :
       Len(layers) < MaxLayers /\ Construct(kind, n, m, Len(layers))
  \/ \E i \in Live : \E p \in Params(out_dim(i), layers[i].n) : SetWeights(i, p)
  \/ \E i \in Live : \E x \in Inputs(layers[i].n) : Forward(i, x)
  \/ \E i \in Live : Backward(i)

SpecAny == Init /\ [][NextAny]_vars

\* ===================================================================== claims
\* What the specification says each layer kind's local derivative is
SpecTanhLocal(x) ==
  [r \in 1..Len(x) |->
     [c \in 1..Len(x) |->
        IF r = c THEN Scale - FMul(NumTanh(x[r]), NumTanh(x[r])) ELSE 0]]

LocalDerivative(i) ==
  CASE layers[i].kind = "Linear" -> W_[i]
    [] layers[i].kind = "Tanh" -> SpecTanhLocal(x_[i])
    [] layers[i].kind = "Sum" -> <<[c \in 1..layers[i].n |-> Scale]>>

IsBackward == ret.op = "backward"
Kind(i) == layers[i].kind

\* ------------------------------------------------------------------------ C1
UninitializedError == "uninitialized state"

\* C1: backward() on a layer on which forward() has never been called raises
\* the "uninitialized state" error and returns no derivative value.
C1_BackwardBeforeForwardRaises ==
  (IsBackward /\ ~fwd[ret.layer]) =>
     ret.raised = UninitializedError /\ ret.val = <<>>

\* ------------------------------------------------------------------------ C2
\* C2: backward() of a Chained layer returns local_derivative x
\* parent.backward(), the parent's value being the one it returns in that state.
C2_ChainedIdentity ==
  (IsBackward /\ ~IsRoot(ret.layer)) =>
     ret.val = MatMul(LocalDerivative(ret.layer),
                      backward(layers[ret.layer].parent).val)

C2_Witness ==
  /\ IsBackward
  /\ ~IsRoot(ret.layer)
  /\ Kind(ret.layer) = "Tanh"
  /\ fwd[ret.layer]
  /\ Kind(1) = "Linear"
  /\ lastSet[1] # <<>>
  /\ Rows(ret.val) = 2
  /\ ret.val[2][1] # 0

\* ------------------------------------------------------------------------ C3
\* the local derivative of layer k at the value it received in the latest pass
PassLocal(k) ==
  CASE Kind(k) = "Linear" -> W_[k]
    [] Kind(k) = "Tanh" -> SpecTanhLocal(pass[k])
    [] Kind(k) = "Sum" -> <<[c \in 1..layers[k].n |-> Scale]>>

\* L_k x (L_(k-1) x (... x L_1))
RECURSIVE ChainProduct(_)
ChainProduct(k) ==
  IF k = 1 THEN PassLocal(1) ELSE MatMul(PassLocal(k), ChainProduct(k - 1))

TailToRoot(k) == [j \in 1..k |-> k + 1 - j]

\* C3: after a root-to-tail forward pass, backward() on the tail calls
\* backward() once on each layer, tail first and root last, and returns the
\* product L_tail x ... x L_root of the local derivatives, each at the value
\* its layer received in that pass.
C3_TailBackwardIsChainProduct ==
  (IsBackward /\ pass # NoPass) =>
     /\ ret.layer = Len(layers)
     /\ ret.calls = TailToRoot(Len(layers))
     /\ IsRoot(ret.calls[Len(ret.calls)])
     /\ ret.val = ChainProduct(Len(layers))

C3_Witness ==
  /\ IsBackward
  /\ pass # NoPass
  /\ Len(layers) = 3
  /\ Kind(1) = "Linear" /\ Kind(2) = "Tanh" /\ Kind(3) = "Linear"
  /\ pass[2] # [j \in 1..layers[2].n |-> 0]
  /\ ret.val[1][1] # 0
  /\ ret.val # W_[3]

\* ------------------------------------------------------------------------ C4
\* C4: every forward(x) of a Tanh layer overwrites the cached input with x, and
\* backward() is computed from the latest forward() argument alone.
C4_TanhUsesLatestInput ==
  /\ (ret.op = "forward" /\ Kind(ret.layer) = "Tanh") => x_[ret.layer] = ret.arg
  /\ (IsBackward /\ Kind(ret.layer) = "Tanh" /\ fwd[ret.layer]) =>
        ret.val = IF IsRoot(ret.layer)
                  THEN SpecTanhLocal(lastIn[ret.layer])
                  ELSE MatMul(SpecTanhLocal(lastIn[ret.layer]),
                              backward(layers[ret.layer].parent).val)

C4_Witness ==
  /\ IsBackward
  /\ Kind(ret.layer) = "Tanh"
  /\ rewrote[ret.layer]
  /\ lastIn[ret.layer] = [j \in 1..layers[ret.layer].n |-> Scale]
  /\ ret.val[1][1] # Scale

\* ------------------------------------------------------------------------ C5
SpecAffine(W, b, x) ==
  [r \in 1..Len(W) |-> SumTo([c \in 1..Len(x) |-> FMul(W[r][c], x[c])], Len(x)) + b[r]]

\* C5: forward(x) of an Affine layer whose parameters were last set by
\* setWeights(W, b) returns W x + b ([[2,3]], [1], [1,1] gives [6]) and leaves
\* W and b as they were set.
C5_LinearForward ==
  (ret.op = "forward" /\ Kind(ret.layer) = "Linear" /\ lastSet[ret.layer] # <<>>) =>
     LET p == lastSet[ret.layer] IN
       /\ ret.val = SpecAffine(p.W, p.b, ret.arg)
       /\ W_[ret.layer] = p.W
       /\ b_[ret.layer] = p.b
       /\ (p.W = <<<<2 * Scale, 3 * Scale>>>> /\ p.b = <<Scale>>
             /\ ret.arg = <<Scale, Scale>>) => ret.val = <<6 * Scale>>

C5_Witness ==
  /\ ret.op = "forward"
  /\ Kind(ret.layer) = "Linear"
  /\ lastSet[ret.layer] # <<>>
  /\ lastSet[ret.layer].W = <<<<2 * Scale, 3 * Scale>>>>
  /\ lastSet[ret.layer].b = <<Scale>>
  /\ ret.arg = <<Scale, Scale>>
  /\ ret.val = <<6 * Scale>>

\* ------------------------------------------------------------------------ C6
\* C6 as stated: backward() of a Sum layer is always a row of ones of width n.
C6_SumBackwardAlwaysOnes ==
  (IsBackward /\ Kind(ret.layer) = "Sum") =>
     ret.val = <<[c \in 1..layers[ret.layer].n |-> Scale]>>

ColumnSums(M) == <<[c \in 1..Cols(M) |-> SumTo([r \in 1..Rows(M) |-> M[r][c]], Rows(M))]>>

\* C6 as amended: backward() of a Root Sum layer is a row of ones of width n;
\* backward() of a Chained Sum layer is that row times parent.backward(), the
\* column sums of the parent's Jacobian; neither depends on what was forwarded
\* to the Sum layer.
C6_SumBackward ==
  (IsBackward /\ Kind(ret.layer) = "Sum") =>
     ret.val = IF IsRoot(ret.layer)
               THEN <<[c \in 1..layers[ret.layer].n |-> Scale]>>
               ELSE ColumnSums(backward(layers[ret.layer].parent).val)

C6_Witness ==
  /\ IsBackward
  /\ Kind(ret.layer) = "Sum"
  /\ fwd[ret.layer]
  /\ ~IsRoot(ret.layer)
  /\ layers[ret.layer].n = 2
  /\ ret.val # <<[c \in 1..Cols(ret.val) |-> Scale]>>

\* ------------------------------------------------------------------------ C7
C7_Shape ==
  /\ \A i \in Live : root_dim(i) = layers[1].n
  /\ IsBackward =>
       /\ Rows(ret.val) = out_dim(ret.layer)
       /\ \A r \in 1..Rows(ret.val) : Len(ret.val[r]) = root_dim(ret.layer)

\* C7: root_dim is the same at every layer of a chain, the Root's input width,
\* it never changes once the layer is constructed, and every backward() result
\* has shape out_dim x root_dim.
C7_RootDim ==
  /\ []C7_Shape
  /\ [][\A i \in Live : layers'[i] = layers[i] /\ root_dim(i)' = root_dim(i)]_vars

C7_Witness ==
  /\ IsBackward
  /\ ~IsRoot(ret.layer)
  /\ out_dim(ret.layer) # root_dim(ret.layer)
  /\ layers[ret.layer].n # layers[1].n
  /\ Rows(ret.val) = 1
  /\ Cols(ret.val) = 2

\* ------------------------------------------------------------------------ C8
\* C8: a chain in which a Chained layer's input width differs from its
\* parent's output width cannot be assembled: the constructor rejects it.
C8_MismatchRejected ==
  \A i \in Live : ~IsRoot(i) => layers[i].n = out_dim(layers[i].parent)

\* ------------------------------------------------------------------------ C9
\* C9: setWeights(W, b) replaces W and b together, they then stay as set
\* through forward() and backward() calls, and a Root Affine layer's backward()
\* returns the W of the latest setWeights.
C9_ParametersPersist ==
  /\ \A i \in Live :
       (Kind(i) = "Linear" /\ lastSet[i] # <<>>) =>
          W_[i] = lastSet[i].W /\ b_[i] = lastSet[i].b
  /\ (IsBackward /\ Kind(ret.layer) = "Linear" /\ IsRoot(ret.layer)
        /\ lastSet[ret.layer] # <<>>) => ret.val = lastSet[ret.layer].W

C9_Witness ==
  /\ IsBackward
  /\ Kind(ret.layer) = "Linear"
  /\ IsRoot(ret.layer)
  /\ fwd[ret.layer]
  /\ lastSet[ret.layer] # <<>>
  /\ ret.val = <<<<2 * Scale, 3 * Scale>>>>

\* ----------------------------------------------------------------------- C10
\* C10: a backward() call changes no layer's parameters or cached input, and
\* a second backward() on the same layer right after the first returns the
\* same matrix.
C10_BackwardReadOnly ==
  [][ret'.op = "backward" =>
       /\ W_' = W_ /\ b_' = b_ /\ x_' = x_
       /\ (IsBackward /\ ret'.layer = ret.layer) => ret'.val = ret.val]_vars

C10_Witness ==
  /\ IsBackward
  /\ ~IsRoot(ret.layer)
  /\ Kind(ret.layer) = "Tanh"
  /\ fwd[ret.layer]
  /\ fwd[1]

====
